---- MODULE Spec2Model ----
(***************************************************************************)
(* Model of p2p.Peer (src/p2p/peer.go): the stream pool, the two message   *)
(* queues and the write loop, the frame readers and the dedup filter.      *)
(*                                                                         *)
(* The capacities of the source (maxStreamCount = 8, msgChanSize = 1024,   *)
(* bloomMaxItemCount = 100000) are scaled down to StreamCap, ChanCap and   *)
(* BloomCap; every guard of the code is kept in terms of the capacity.     *)
(***************************************************************************)
EXTENDS Integers, Sequences, FiniteSets, TLC

\* ---- bounds of the model ----
StreamCap == 2      \* scaled maxStreamCount
ChanCap == 2        \* scaled msgChanSize
BloomCap == 2       \* scaled bloomMaxItemCount
MaxStreams == 3     \* streams ever created (inbound and outbound)
MaxSends == 3       \* SendMessage calls ever made
MaxFrames == 2      \* frames ever read by the frame readers
MaxStops == 1       \* Stop() calls ever made
MaxLen == 10240     \* largest payload length a write deadline is computed for

\* ---- program constants ----
maxStreamCount == StreamCap
msgChanSize == ChanCap
bloomMaxItemCount == BloomCap

StreamIds == 1..MaxStreams
MsgIds == 1..MaxSends
Senders == {"a", "b"}

\* Message contents.  needDedup() depends on the message type, which is part
\* of the content: content 0 is of a type that needs no dedup.
Contents == 0..2
needDedup(c) == c # 0

\* The bloom filter as a bit set.  The bits of content 2 are among those of
\* content 1, so that 2 tests positive once 1 was added (a false positive),
\* while 1 tests negative when only 2 was added.
BloomBits(c) == IF c = 1 THEN {1, 2} ELSE IF c = 2 THEN {1} ELSE {2}
BloomNew == {}
BloomAdd(f, c) == f \cup BloomBits(c)
BloomTest(f, c) == BloomBits(c) \subseteq f

VARIABLES
  streams,        \* p.streams: the idle pool, a buffered channel (FIFO)
  streamCount,    \* p.streamCount
  nextId,         \* streams created so far (ids are 1..nextId)
  closed,         \* streams on which Close() was called
  lastAdd,        \* result of the last AddStream call
  reader,         \* readLoop goroutine of each stream
  rmsg,           \* content of the frame the reader is about to deliver
  handled,        \* number of peerManager.HandleMessage calls
  goodFrames,     \* number of frames read, validated and decoded in full
  badFrames,      \* number of frames read whose chain id does not match
  frames,         \* number of frames read
  recentMsg,      \* p.recentMsg
  bloomItemCount, \* p.bloomItemCount
  sinceReset,     \* contents added to recentMsg since it was last replaced
  okSince,        \* per content: records of other contents since a successful dedup send
  rdSince,        \* dedup contents of the good frames read since recentMsg was last replaced
  dlv,            \* those of them that HandleMessage was called with
  urgentMsgCh,    \* p.urgentMsgCh (message ids)
  normalMsgCh,    \* p.normalMsgCh (message ids)
  msgs,           \* per enqueued message, in enqueue order: it is urgent
  calls,          \* SendMessage calls made so far
  spc,            \* position of each SendMessage caller
  smsg,           \* content of its current (or last) call
  surgent,        \* mp = UrgentMessage, while the call runs
  sdedup,         \* deduplicate, while the call runs
  sres,           \* what its last call returned
  quit,           \* quitWriteCh is closed (and the connection)
  stops,          \* Stop() calls made so far
  lpc,            \* position of writeLoop
  lnm,            \* the normal message writeLoop holds while it drains urgent
  wpc,            \* per message: position of its write() call
  wstr,           \* per message: the stream write() has checked out
  removed,        \* peerManager.RemoveNeighbor was invoked
  plen,           \* len(m.content()) of the write() whose deadline was computed
  deadline        \* seconds from time.Now() to that deadline (0: none computed yet)

poolVars == <<streams, streamCount, nextId, closed, lastAdd>>
readVars == <<reader, rmsg, handled, goodFrames, badFrames, frames>>
bloomVars == <<recentMsg, bloomItemCount, sinceReset, okSince, rdSince, dlv>>
queueVars == <<urgentMsgCh, normalMsgCh, msgs>>
sendVars == <<calls, spc, smsg, surgent, sdedup, sres>>
loopVars == <<lpc, lnm>>
writeVars == <<wpc, wstr, removed>>
stopVars == <<quit, stops>>
dlVars == <<plen, deadline>>
vars == <<poolVars, readVars, bloomVars, queueVars, sendVars, loopVars, writeVars, stopVars,
          dlVars>>

\* ---- NewPeer: the constructor adds the first stream ----
Init ==
  /\ streams = <<1>>
  /\ streamCount = 1
  /\ nextId = 1
  /\ closed = {}
  /\ lastAdd = "ok"
  /\ reader = [s \in StreamIds |-> IF s = 1 THEN "read" ELSE "none"]
  /\ rmsg = [s \in StreamIds |-> 0]
  /\ handled = 0
  /\ goodFrames = 0
  /\ badFrames = 0
  /\ frames = 0
  /\ recentMsg = BloomNew
  /\ bloomItemCount = 0
  /\ sinceReset = {}
  /\ okSince = [c \in Contents |-> -1]
  /\ rdSince = {}
  /\ dlv = {}
  /\ urgentMsgCh = <<>>
  /\ normalMsgCh = <<>>
  /\ msgs = <<>>
  /\ calls = 0
  /\ spc = [s \in Senders |-> "idle"]
  /\ smsg = [s \in Senders |-> 0]
  /\ surgent = [s \in Senders |-> FALSE]
  /\ sdedup = [s \in Senders |-> FALSE]
  /\ sres = [s \in Senders |-> "none"]
  /\ quit = FALSE
  /\ stops = 0
  /\ lpc = "init"
  /\ lnm = 0
  /\ wpc = [m \in MsgIds |-> "none"]
  /\ wstr = [m \in MsgIds |-> 0]
  /\ removed = FALSE
  /\ plen = 0
  /\ deadline = 0

Min(a, b) == IF a < b THEN a ELSE b

\* ---- stream pool ----

\* Mutant: the cap test lets one stream too many through.
AtStreamCapOffByOne == streamCount > maxStreamCount

\* if p.streamCount >= maxStreamCount, in AddStream and in newStream
AtStreamCap == streamCount >= maxStreamCount

\* AddStream(stream): the stream is a new inbound stream.  The insertion into
\* the pool is a channel send made under streamMutex: it needs room.
AddStream ==
  /\ nextId < MaxStreams
  /\ IF AtStreamCap
       THEN /\ lastAdd' = "ErrStreamCountExceed"
            /\ nextId' = nextId + 1
            /\ UNCHANGED <<streams, streamCount, closed, reader>>
       ELSE /\ Len(streams) < maxStreamCount
            /\ streams' = Append(streams, nextId + 1)
            /\ streamCount' = streamCount + 1
            /\ reader' = [reader EXCEPT ![nextId + 1] = "read"]
            /\ nextId' = nextId + 1
            /\ lastAdd' = "ok"
            /\ UNCHANGED closed
  /\ UNCHANGED <<rmsg, handled, goodFrames, badFrames, frames, bloomVars, queueVars,
                 sendVars, loopVars, writeVars, stopVars,
                 dlVars>>

\* Mutant: the stream is closed and the count is left as it was.
CloseStreamUncounted(s) ==
  /\ closed' = closed \cup {s}
  /\ streamCount' = streamCount

\* CloseStream(stream), as write() calls it on a failed write.
CloseStream(s) ==
  /\ closed' = closed \cup {s}
  /\ streamCount' = streamCount - 1

\* ---- write(m), one call per dequeued message ----

\* Mutant: getStream reads the head of the pool without taking it out.
GetStreamPeek(m) ==
  /\ wpc[m] = "getStream"
  /\ IF Len(streams) > 0
       THEN /\ wstr' = [wstr EXCEPT ![m] = Head(streams)]
            /\ wpc' = [wpc EXCEPT ![m] = "io"]
            /\ UNCHANGED streams
       ELSE /\ wpc' = [wpc EXCEPT ![m] = "newStream"]
            /\ UNCHANGED <<streams, wstr>>
  /\ UNCHANGED <<streamCount, nextId, closed, lastAdd, readVars, bloomVars, queueVars,
                 sendVars, loopVars, removed, stopVars,
                 dlVars>>

\* getStream, the select: an idle stream if there is one, else newStream.
GetStream(m) ==
  /\ wpc[m] = "getStream"
  /\ IF Len(streams) > 0
       THEN /\ wstr' = [wstr EXCEPT ![m] = Head(streams)]
            /\ streams' = Tail(streams)
            /\ wpc' = [wpc EXCEPT ![m] = "io"]
       ELSE /\ wpc' = [wpc EXCEPT ![m] = "newStream"]
            /\ UNCHANGED <<streams, wstr>>
  /\ UNCHANGED <<streamCount, nextId, closed, lastAdd, readVars, bloomVars, queueVars,
                 sendVars, loopVars, removed, stopVars,
                 dlVars>>

\* newStream at the cap: ErrStreamCountExceed, getStream goes on to wait.
NewStreamExceed(m) ==
  /\ wpc[m] = "newStream"
  /\ AtStreamCap
  /\ wpc' = [wpc EXCEPT ![m] = "wait"]
  /\ UNCHANGED <<poolVars, readVars, bloomVars, queueVars, sendVars, loopVars, wstr,
                 removed, stopVars,
                 dlVars>>

\* newStream below the cap, host.NewStream succeeds.
NewStreamOk(m) ==
  /\ wpc[m] = "newStream"
  /\ ~AtStreamCap
  /\ nextId < MaxStreams
  /\ nextId' = nextId + 1
  /\ streamCount' = streamCount + 1
  /\ reader' = [reader EXCEPT ![nextId + 1] = "read"]
  /\ wstr' = [wstr EXCEPT ![m] = nextId + 1]
  /\ wpc' = [wpc EXCEPT ![m] = "io"]
  /\ UNCHANGED <<streams, closed, lastAdd, rmsg, handled, goodFrames, badFrames, frames,
                 bloomVars, queueVars, sendVars, loopVars, removed, stopVars,
                 dlVars>>

\* Mutant: the stream is counted before host.NewStream is called, and the
\* count is not taken back when the call fails.
NewStreamFailCounted(m) ==
  /\ wpc[m] = "newStream"
  /\ ~AtStreamCap
  /\ removed' = TRUE
  /\ streamCount' = streamCount + 1
  /\ wpc' = [wpc EXCEPT ![m] = "failed"]
  /\ UNCHANGED <<streams, nextId, closed, lastAdd, readVars, bloomVars, queueVars, sendVars,
                 loopVars, wstr, stopVars, dlVars>>

\* newStream below the cap, host.NewStream fails: write() calls RemoveNeighbor
\* and returns the error.
NewStreamFail(m) ==
  /\ wpc[m] = "newStream"
  /\ ~AtStreamCap
  /\ removed' = TRUE
  /\ wpc' = [wpc EXCEPT ![m] = "failed"]
  /\ UNCHANGED <<poolVars, readVars, bloomVars, queueVars, sendVars, loopVars, wstr,
                 stopVars,
                 dlVars>>

\* getStream, the blocking receive after ErrStreamCountExceed.
WaitStream(m) ==
  /\ wpc[m] = "wait"
  /\ Len(streams) > 0
  /\ wstr' = [wstr EXCEPT ![m] = Head(streams)]
  /\ streams' = Tail(streams)
  /\ wpc' = [wpc EXCEPT ![m] = "io"]
  /\ UNCHANGED <<streamCount, nextId, closed, lastAdd, readVars, bloomVars, queueVars,
                 sendVars, loopVars, removed, stopVars,
                 dlVars>>

\* SetWriteDeadline and Write succeed: the stream goes back to the pool.
WriteOk(m) ==
  /\ wpc[m] = "io"
  /\ Len(streams) < maxStreamCount
  /\ streams' = Append(streams, wstr[m])
  /\ wpc' = [wpc EXCEPT ![m] = "written"]
  /\ wstr' = [wstr EXCEPT ![m] = 0]
  /\ UNCHANGED <<streamCount, nextId, closed, lastAdd, readVars, bloomVars, queueVars,
                 sendVars, loopVars, removed, stopVars,
                 dlVars>>

\* Mutant: the failed write falls through to the release of the stream.
WriteFailRelease(m) ==
  /\ wpc[m] = "io"
  /\ CloseStream(wstr[m])
  /\ Len(streams) < maxStreamCount
  /\ streams' = Append(streams, wstr[m])
  /\ wpc' = [wpc EXCEPT ![m] = "failed"]
  /\ wstr' = [wstr EXCEPT ![m] = 0]
  /\ UNCHANGED <<nextId, lastAdd, readVars, bloomVars, queueVars, sendVars,
                 loopVars, removed, stopVars,
                 dlVars>>

\* SetWriteDeadline or Write fails: the stream is closed, not put back.
WriteFail(m) ==
  /\ wpc[m] = "io"
  /\ CloseStream(wstr[m])
  /\ wpc' = [wpc EXCEPT ![m] = "failed"]
  /\ wstr' = [wstr EXCEPT ![m] = 0]
  /\ UNCHANGED <<streams, nextId, lastAdd, readVars, bloomVars, queueVars, sendVars,
                 loopVars, removed, stopVars,
                 dlVars>>

\* ---- writeLoop ----
InWrite(m) == wpc[m] \in {"getStream", "newStream", "wait", "io"}
Urgent(m) == m \in 1..Len(msgs) /\ msgs[m]
Normal(m) == m \in 1..Len(msgs) /\ ~msgs[m]
\* Mutant: the normal write is called without go, so writeLoop is inside it too.
LoopBusyAll == \E m \in MsgIds : InWrite(m)

\* writeLoop is inside a synchronous p.write(um)
LoopBusy == \E m \in MsgIds : Urgent(m) /\ InWrite(m)
LoopReady == lpc \in {"select", "drain"} /\ ~LoopBusy

Start ==
  /\ lpc = "init"
  /\ lpc' = "select"
  /\ UNCHANGED <<poolVars, readVars, bloomVars, queueVars, sendVars, lnm, writeVars, stopVars,
                 dlVars>>

\* case <-p.quitWriteCh (outer and inner select)
LoopQuit ==
  /\ LoopReady
  /\ quit
  /\ lpc' = "stopped"
  /\ UNCHANGED <<poolVars, readVars, bloomVars, queueVars, sendVars, lnm, writeVars, stopVars,
                 dlVars>>

\* Mutant: go p.write(um), the loop does not wait for the urgent write.
LoopUrgentAsync ==
  /\ lpc \in {"select", "drain"}
  /\ Len(urgentMsgCh) > 0
  /\ urgentMsgCh' = Tail(urgentMsgCh)
  /\ wpc' = [wpc EXCEPT ![Head(urgentMsgCh)] = "getStream"]
  /\ UNCHANGED <<poolVars, readVars, bloomVars, normalMsgCh, msgs, sendVars, loopVars,
                 wstr, removed, stopVars,
                 dlVars>>

\* case um := <-p.urgentMsgCh (outer and inner select): p.write(um)
LoopUrgent ==
  /\ LoopReady
  /\ Len(urgentMsgCh) > 0
  /\ urgentMsgCh' = Tail(urgentMsgCh)
  /\ wpc' = [wpc EXCEPT ![Head(urgentMsgCh)] = "getStream"]
  /\ UNCHANGED <<poolVars, readVars, bloomVars, normalMsgCh, msgs, sendVars, loopVars,
                 wstr, removed, stopVars,
                 dlVars>>

\* case nm := <-p.normalMsgCh (outer select)
LoopNormal ==
  /\ lpc = "select"
  /\ ~LoopBusy
  /\ Len(normalMsgCh) > 0
  /\ normalMsgCh' = Tail(normalMsgCh)
  /\ lnm' = Head(normalMsgCh)
  /\ wpc' = [wpc EXCEPT ![Head(normalMsgCh)] = "held"]
  /\ lpc' = "drain"
  /\ UNCHANGED <<poolVars, readVars, bloomVars, urgentMsgCh, msgs, sendVars, wstr,
                 removed, stopVars,
                 dlVars>>

\* Mutant: the normal message is dispatched without draining the urgent queue.
InnerDefaultAlways == TRUE

\* The default case of the inner select is taken when no other case is ready.
InnerDefault == ~quit /\ Len(urgentMsgCh) = 0

\* default of the inner select, then go p.write(nm)
LoopDispatch ==
  /\ lpc = "drain"
  /\ ~LoopBusy
  /\ InnerDefault
  /\ wpc' = [wpc EXCEPT ![lnm] = "getStream"]
  /\ lnm' = 0
  /\ lpc' = "select"
  /\ UNCHANGED <<poolVars, readVars, bloomVars, queueVars, sendVars, wstr, removed, stopVars,
                 dlVars>>

\* Stop(): close(quitWriteCh) once, conn.Close()
Stop ==
  /\ stops < MaxStops
  /\ stops' = stops + 1
  /\ quit' = TRUE
  /\ UNCHANGED <<poolVars, readVars, bloomVars, queueVars, sendVars, loopVars, writeVars,
                 dlVars>>

\* ---- dedup filter ----

\* Mutant: the test is made on a fresh filter instead of p.recentMsg.
hasMessageFresh(c) == BloomTest(BloomNew, c)

\* hasMessage(msg)
hasMessage(c) == BloomTest(recentMsg, c)

\* Mutant: the capacity test is > instead of >=.
recordMessageOffByOne(c) ==
  LET reset == bloomItemCount > bloomMaxItemCount IN
  /\ recentMsg' = BloomAdd(IF reset THEN BloomNew ELSE recentMsg, c)
  /\ bloomItemCount' = (IF reset THEN 0 ELSE bloomItemCount) + 1
  /\ sinceReset' = (IF reset THEN {} ELSE sinceReset) \cup {c}

\* recordMessage(msg): a fresh filter once the counter has reached the
\* capacity, then Add and increment.
recordMessage(c) ==
  LET reset == bloomItemCount >= bloomMaxItemCount IN
  /\ recentMsg' = BloomAdd(IF reset THEN BloomNew ELSE recentMsg, c)
  /\ bloomItemCount' = (IF reset THEN 0 ELSE bloomItemCount) + 1
  /\ sinceReset' = (IF reset THEN {} ELSE sinceReset) \cup {c}

\* History: okSince[d] counts the records of contents other than d made since
\* the last successful SendMessage(d, _, deduplicate = true) recorded d.
OkSinceAfter(c, dedupSend) ==
  [d \in Contents |->
     IF d = c THEN (IF dedupSend THEN 0 ELSE okSince[d])
     ELSE IF okSince[d] >= 0 THEN Min(okSince[d] + 1, bloomMaxItemCount)
     ELSE okSince[d]]

\* History: rdSince and dlv over a step that may have recorded a message.
\* p.bloomItemCount only ever goes down when recentMsg is replaced; read is
\* the dedup content of the good frame the step read, if any.
HistAfter(read) ==
  LET replaced == bloomItemCount' < bloomItemCount IN
  /\ rdSince' = (IF replaced THEN {} ELSE rdSince) \cup read
  /\ dlv' = IF replaced THEN {} ELSE dlv

\* ---- SendMessage(msg, mp, deduplicate) ----

\* The call and its dedup test: ErrDuplicateMessage, or on to the enqueue.
SendTest(s, c, urgent, dedup) ==
  /\ spc[s] = "idle"
  /\ calls < MaxSends
  /\ calls' = calls + 1
  /\ IF dedup /\ needDedup(c) /\ hasMessage(c)
       THEN /\ sres' = [sres EXCEPT ![s] = "ErrDuplicateMessage"]
            /\ smsg' = [smsg EXCEPT ![s] = c]
            /\ UNCHANGED <<spc, surgent, sdedup>>
       ELSE /\ spc' = [spc EXCEPT ![s] = "enqueue"]
            /\ smsg' = [smsg EXCEPT ![s] = c]
            /\ surgent' = [surgent EXCEPT ![s] = urgent]
            /\ sdedup' = [sdedup EXCEPT ![s] = dedup]
            /\ sres' = [sres EXCEPT ![s] = "none"]
  /\ UNCHANGED <<poolVars, readVars, bloomVars, queueVars, loopVars, writeVars, stopVars,
                 dlVars>>

\* Mutant: the send blocks once the queue holds one message more than its capacity.
CanSendOffByOne(ch) == Len(ch) <= msgChanSize

\* case ch <- msg: the buffered channel has room
CanSend(ch) == Len(ch) < msgChanSize

\* Mutant: the message is recorded as seen although the queue was full.
RejectFullRecorded(s) ==
  /\ spc' = [spc EXCEPT ![s] = "idle"]
  /\ sres' = [sres EXCEPT ![s] = "ErrMessageChannelFull"]
  /\ surgent' = [surgent EXCEPT ![s] = FALSE]
  /\ sdedup' = [sdedup EXCEPT ![s] = FALSE]
  /\ recordMessage(smsg[s])
  /\ HistAfter({})
  /\ UNCHANGED <<smsg, queueVars, wpc, okSince>>

\* default: return ErrMessageChannelFull
RejectFull(s) ==
  /\ spc' = [spc EXCEPT ![s] = "idle"]
  /\ sres' = [sres EXCEPT ![s] = "ErrMessageChannelFull"]
  /\ surgent' = [surgent EXCEPT ![s] = FALSE]
  /\ sdedup' = [sdedup EXCEPT ![s] = FALSE]
  /\ UNCHANGED <<smsg, queueVars, wpc, bloomVars>>

\* The non-blocking send on the queue the priority selects.
SendEnqueue(s) ==
  /\ spc[s] = "enqueue"
  /\ LET ch == IF surgent[s] THEN urgentMsgCh ELSE normalMsgCh
         id == Len(msgs) + 1 IN
     IF CanSend(ch)
       THEN /\ IF surgent[s]
                 THEN urgentMsgCh' = Append(urgentMsgCh, id) /\ UNCHANGED normalMsgCh
                 ELSE normalMsgCh' = Append(normalMsgCh, id) /\ UNCHANGED urgentMsgCh
            /\ msgs' = Append(msgs, surgent[s])
            /\ wpc' = [wpc EXCEPT ![id] = "queued"]
            /\ IF needDedup(smsg[s])
                 THEN /\ spc' = [spc EXCEPT ![s] = "record"]
                      /\ UNCHANGED <<smsg, surgent, sdedup, sres>>
                 ELSE /\ spc' = [spc EXCEPT ![s] = "idle"]
                      /\ sres' = [sres EXCEPT ![s] = "ok"]
                      /\ surgent' = [surgent EXCEPT ![s] = FALSE]
                      /\ sdedup' = [sdedup EXCEPT ![s] = FALSE]
                      /\ UNCHANGED smsg
            /\ UNCHANGED bloomVars
       ELSE RejectFull(s)
  /\ UNCHANGED <<poolVars, readVars, calls, loopVars, wstr, removed, stopVars,
                 dlVars>>

\* recordMessage after the enqueue of a message that needs dedup.
SendRecord(s) ==
  /\ spc[s] = "record"
  /\ recordMessage(smsg[s])
  /\ okSince' = OkSinceAfter(smsg[s], sdedup[s])
  /\ HistAfter({})
  /\ spc' = [spc EXCEPT ![s] = "idle"]
  /\ sres' = [sres EXCEPT ![s] = "ok"]
  /\ surgent' = [surgent EXCEPT ![s] = FALSE]
  /\ sdedup' = [sdedup EXCEPT ![s] = FALSE]
  /\ UNCHANGED <<smsg, poolVars, readVars, queueVars, calls, loopVars, writeVars, stopVars,
                 dlVars>>

\* ---- readLoop(stream) ----
\* A frame as the reader meets it: the header read fails, the chain id does
\* not match, the body read fails, the decoding fails, or the frame is good.
FrameKinds == {"hdrErr", "badChain", "bodyErr", "parseErr", "good"}

\* Mutant: the chain id of the header is not compared with the configured one.
FramePassesNoChainCheck(kind) == kind \in {"good", "badChain"}

\* The frame gets past the four checks of an iteration: header read, chain
\* id, body read, parseP2PMessage.
FramePasses(kind) == kind = "good"

\* Mutant: handleMessage hands the message to the peer manager without
\* recording it.
ReadFrameNoRecord(s, kind, c) ==
  /\ reader[s] = "read"
  /\ frames < MaxFrames
  /\ frames' = frames + 1
  /\ goodFrames' = goodFrames + (IF kind = "good" THEN 1 ELSE 0)
  /\ badFrames' = badFrames + (IF kind = "badChain" THEN 1 ELSE 0)
  /\ IF FramePasses(kind)
       THEN /\ reader' = [reader EXCEPT ![s] = "deliver"]
            /\ rmsg' = [rmsg EXCEPT ![s] = c]
       ELSE /\ reader' = [reader EXCEPT ![s] = kind]
            /\ UNCHANGED rmsg
  /\ UNCHANGED <<recentMsg, bloomItemCount, sinceReset, okSince>>
  /\ HistAfter(IF kind = "good" /\ needDedup(c) THEN {c} ELSE {})
  /\ UNCHANGED <<handled, poolVars, queueVars, sendVars, loopVars, writeVars, stopVars,
                 dlVars>>

\* One iteration up to and including handleMessage's recordMessage.  frames,
\* goodFrames, badFrames and rdSince log the input, whatever the reader does
\* with it.
ReadFrame(s, kind, c) ==
  /\ reader[s] = "read"
  /\ frames < MaxFrames
  /\ frames' = frames + 1
  /\ goodFrames' = goodFrames + (IF kind = "good" THEN 1 ELSE 0)
  /\ badFrames' = badFrames + (IF kind = "badChain" THEN 1 ELSE 0)
  /\ IF FramePasses(kind)
       THEN /\ reader' = [reader EXCEPT ![s] = "deliver"]
            /\ rmsg' = [rmsg EXCEPT ![s] = c]
            /\ IF needDedup(c)
                 THEN recordMessage(c) /\ okSince' = OkSinceAfter(c, FALSE)
                 ELSE UNCHANGED <<recentMsg, bloomItemCount, sinceReset, okSince>>
       ELSE /\ reader' = [reader EXCEPT ![s] = kind]
            /\ UNCHANGED <<rmsg, recentMsg, bloomItemCount, sinceReset, okSince>>
  /\ HistAfter(IF kind = "good" /\ needDedup(c) THEN {c} ELSE {})
  /\ UNCHANGED <<handled, poolVars, queueVars, sendVars, loopVars, writeVars, stopVars,
                 dlVars>>

\* handleMessage: peerManager.HandleMessage(msg, p.id), then the next iteration.
Deliver(s) ==
  /\ reader[s] = "deliver"
  /\ handled' = handled + 1
  /\ reader' = [reader EXCEPT ![s] = "read"]
  /\ rmsg' = [rmsg EXCEPT ![s] = 0]
  /\ dlv' = dlv \cup ({rmsg[s]} \cap rdSince)
  /\ UNCHANGED <<goodFrames, badFrames, frames, poolVars, recentMsg, bloomItemCount, sinceReset,
                 okSince, rdSince, queueVars, sendVars, loopVars, writeVars, stopVars,
                 dlVars>>

\* ---- write(): the deadline of a message ----
PayloadLens == 0..MaxLen

\* Mutant: the deadline is the quotient alone, without the second added.
DeadlineSecondsNoPlusOne(n) == (n \div 1024) \div 5

\* time.Duration(len(m.content())/1024/5+1) * time.Second, in seconds; the
\* divisions are Go's integer divisions of a non-negative int.
DeadlineSeconds(n) == (n \div 1024) \div 5 + 1

\* write() computes the deadline it hands to stream.SetWriteDeadline.
SetWriteDeadline(n) ==
  /\ deadline = 0
  /\ plen' = n
  /\ deadline' = DeadlineSeconds(n)
  /\ UNCHANGED <<poolVars, readVars, bloomVars, queueVars, sendVars, loopVars, writeVars,
                 stopVars>>

\* ---- every operation of the peer ----
Next ==
  \/ AddStream
  \/ Start
  \/ Stop
  \/ LoopQuit
  \/ LoopUrgent
  \/ LoopNormal
  \/ LoopDispatch
  \/ \E m \in MsgIds : GetStream(m)
  \/ \E m \in MsgIds : NewStreamExceed(m)
  \/ \E m \in MsgIds : NewStreamOk(m)
  \/ \E m \in MsgIds : NewStreamFail(m)
  \/ \E m \in MsgIds : WaitStream(m)
  \/ \E m \in MsgIds : WriteOk(m)
  \/ \E m \in MsgIds : WriteFail(m)
  \/ \E s \in Senders, c \in Contents, u \in BOOLEAN, d \in BOOLEAN : SendTest(s, c, u, d)
  \/ \E s \in Senders : SendEnqueue(s)
  \/ \E s \in Senders : SendRecord(s)
  \/ \E s \in StreamIds, k \in FrameKinds, c \in Contents : ReadFrame(s, k, c)
  \/ \E s \in StreamIds : Deliver(s)
  \/ \E n \in PayloadLens : SetWriteDeadline(n)

Spec == Init /\ [][Next]_vars

\* ---- the write path alone: messages that need no dedup, no frame readers ----
NextWrite ==
  \/ AddStream
  \/ Start
  \/ Stop
  \/ LoopQuit
  \/ LoopUrgent
  \/ LoopNormal
  \/ LoopDispatch
  \/ \E m \in MsgIds : GetStream(m)
  \/ \E m \in MsgIds : NewStreamExceed(m)
  \/ \E m \in MsgIds : NewStreamOk(m)
  \/ \E m \in MsgIds : NewStreamFail(m)
  \/ \E m \in MsgIds : WaitStream(m)
  \/ \E m \in MsgIds : WriteOk(m)
  \/ \E m \in MsgIds : WriteFail(m)
  \/ \E s \in Senders, u \in BOOLEAN : SendTest(s, 0, u, FALSE)
  \/ \E s \in Senders : SendEnqueue(s)

SpecWrite == Init /\ [][NextWrite]_vars

\* ---- submissions and the dedup filter: concurrent SendMessage calls with
\* every content, priority and deduplicate flag (writeLoop never touches the
\* filter; the queues with writeLoop draining them are in SpecWrite) ----
NextSend ==
  \/ \E s \in Senders, c \in Contents, u \in BOOLEAN, d \in BOOLEAN : SendTest(s, c, u, d)
  \/ \E s \in Senders : SendEnqueue(s)
  \/ \E s \in Senders : SendRecord(s)

SpecSend == Init /\ [][NextSend]_vars

\* ---- the frame readers, with submissions sharing the dedup filter ----
NextRead ==
  \/ AddStream
  \/ \E s \in StreamIds, k \in FrameKinds, c \in Contents : ReadFrame(s, k, c)
  \/ \E s \in StreamIds : Deliver(s)
  \/ \E c \in Contents, d \in BOOLEAN : SendTest("a", c, TRUE, d)
  \/ \E s \in Senders : SendEnqueue(s)
  \/ \E s \in Senders : SendRecord(s)

SpecRead == Init /\ [][NextRead]_vars

\* ---- the deadline computation alone, over the payload lengths ----
NextDeadline == \E n \in PayloadLens : SetWriteDeadline(n)

SpecDeadline == Init /\ [][NextDeadline]_vars

\* ======================= properties =======================
Range(q) == {q[i] : i \in 1..Len(q)}
\* write(m) was called / has returned
Started(m) == wpc[m] \in {"getStream", "newStream", "wait", "io", "written", "failed"}
Finished(m) == wpc[m] \in {"written", "failed"}
CheckedOut == {wstr[m] : m \in MsgIds} \ {0}

\* C1: the live stream count never exceeds maxStreamCount, whatever the
\* interleaving of AddStream, newStream and CloseStream; an AddStream call
\* (a step that takes a new stream and is no step of a write) made while the
\* count is at the cap returns ErrStreamCountExceed and changes neither the
\* count nor the idle pool.
C1_StreamCountCapped ==
  /\ [](streamCount <= maxStreamCount)
  /\ [][(nextId' # nextId /\ wpc' = wpc /\ streamCount >= maxStreamCount)
          => (lastAdd' = "ErrStreamCountExceed" /\ streamCount' = streamCount
              /\ streams' = streams)]_vars

\* C1 witness: an AddStream was rejected at the cap, after a write had
\* created a stream and with a stream checked out.
C1_Witness ==
  /\ lastAdd = "ErrStreamCountExceed"
  /\ streamCount = maxStreamCount
  /\ CheckedOut # {}

\* C4: when write() has been called for a normal message N, write() has
\* returned for every urgent message enqueued before N was enqueued.
C4_UrgentBeforeLaterNormal ==
  \A n \in 1..Len(msgs), u \in 1..Len(msgs) :
    (Normal(n) /\ Urgent(u) /\ u < n /\ Started(n)) => Finished(u)

\* C4 witness: a normal message is being written and the write of an urgent
\* message enqueued before it has returned.
C4_Witness ==
  \E n \in 1..Len(msgs), u \in 1..Len(msgs) :
    Normal(n) /\ Urgent(u) /\ u < n /\ InWrite(n) /\ Finished(u)

\* C5: when write() has been called for an urgent message U2, write() has
\* returned for every urgent message enqueued before U2.
C5_UrgentFifo ==
  \A u1 \in 1..Len(msgs), u2 \in 1..Len(msgs) :
    (Urgent(u1) /\ Urgent(u2) /\ u1 < u2 /\ Started(u2)) => Finished(u1)

\* C5 witness: the second of two urgent messages is being written while a
\* normal message enqueued between them is still being written.
C5_Witness ==
  \E u1 \in 1..Len(msgs), u2 \in 1..Len(msgs), n \in 1..Len(msgs) :
    /\ Urgent(u1) /\ Urgent(u2) /\ Normal(n) /\ u1 < n /\ n < u2
    /\ InWrite(u2) /\ InWrite(n) /\ Finished(u1)

\* C6: neither queue ever holds more than msgChanSize messages; the enqueue
\* step of SendMessage is never blocked; and made on a full queue it returns
\* ErrMessageChannelFull and leaves both queues as they are.
C6_QueuesBoundedNonBlocking ==
  /\ [](/\ Len(urgentMsgCh) <= msgChanSize
        /\ Len(normalMsgCh) <= msgChanSize
        /\ \A s \in Senders : spc[s] = "enqueue" => ENABLED SendEnqueue(s))
  /\ [][\A s \in Senders :
          (/\ spc[s] = "enqueue" /\ spc'[s] # "enqueue"
           /\ Len(IF surgent[s] THEN urgentMsgCh ELSE normalMsgCh) >= msgChanSize)
          => (/\ sres'[s] = "ErrMessageChannelFull"
              /\ urgentMsgCh' = urgentMsgCh /\ normalMsgCh' = normalMsgCh)]_vars

\* C6 witness: a submission was rejected with ErrMessageChannelFull on a queue
\* that holds msgChanSize messages, while writeLoop is running.
C6_Witness ==
  /\ \E s \in Senders : sres[s] = "ErrMessageChannelFull" /\ spc[s] = "idle"
  /\ Len(urgentMsgCh) = msgChanSize \/ Len(normalMsgCh) = msgChanSize
  /\ lpc # "init"

\* C8: a stream on which a write failed is closed, the count is decremented by
\* one, the stream is not in the idle pool and no write() holds it, then or later.
C8_FailedStreamRetired ==
  /\ [](\A s \in closed : s \notin Range(streams) /\ s \notin CheckedOut)
  /\ [][closed' # closed
          => (/\ streamCount' = streamCount - 1
              /\ streams' = streams
              /\ \E m \in MsgIds : wpc[m] = "io" /\ wpc'[m] = "failed"
                                   /\ closed' = closed \cup {wstr[m]})]_vars

\* C8 witness: a stream was retired and a later getStream has handed out a stream.
C8_Witness ==
  /\ closed # {}
  /\ \E m \in MsgIds : wpc[m] = "io"
  /\ \E m \in MsgIds : wpc[m] = "failed" /\ ~removed

\* The step in which caller s passes the dedup test of a call with
\* deduplicate = true for a message that needs dedup.
PassesDedupTest(s) ==
  /\ spc[s] = "idle" /\ spc'[s] = "enqueue"
  /\ sdedup'[s] /\ needDedup(smsg'[s])

\* C2 as stated: once SendMessage(m, _, true) has succeeded, a later
\* SendMessage(m, _, true) does not pass the dedup test as long as fewer than
\* bloomMaxItemCount other messages were recorded since.
C2_Original ==
  [][\A s \in Senders :
       PassesDedupTest(s) => ~(okSince[smsg'[s]] \in 0..(bloomMaxItemCount - 1))]_vars

\* C2 amended: once SendMessage(m, _, true) has succeeded, a later
\* SendMessage(m, _, true) does not pass the dedup test (it returns
\* ErrDuplicateMessage) as long as m was recorded since the last reset of the filter.
C2_SecondSendRejectedUntilReset ==
  [][\A s \in Senders :
       PassesDedupTest(s) => ~(okSince[smsg'[s]] >= 0 /\ smsg'[s] \in sinceReset)]_vars

\* C2 witness: a call returned ErrDuplicateMessage for a message that an
\* earlier call with deduplicate = true had sent since the last reset.
C2_Witness ==
  \E s \in Senders :
    /\ sres[s] = "ErrDuplicateMessage" /\ spc[s] = "idle"
    /\ okSince[smsg[s]] >= 0 /\ smsg[s] \in sinceReset

\* C3 as stated: two SendMessage calls with deduplicate = true for the same
\* message that needs dedup are never both past the enqueue.
C3_Original ==
  ~ \E s \in Senders, r \in Senders :
      /\ s # r
      /\ spc[s] = "record" /\ spc[r] = "record"
      /\ smsg[s] = smsg[r] /\ sdedup[s] /\ sdedup[r]

\* C7: the dedup test of a call changes neither the queues nor the filter
\* nor its counter, whether it rejects the call or not, and neither does the
\* enqueue step that returns ErrMessageChannelFull.
C7_RejectedSendChangesNothing ==
  [][/\ calls' = calls + 1
          => UNCHANGED <<urgentMsgCh, normalMsgCh, recentMsg, bloomItemCount>>
     /\ \A s \in Senders :
          (spc[s] = "enqueue" /\ spc'[s] = "idle" /\ sres'[s] = "ErrMessageChannelFull")
          => UNCHANGED <<urgentMsgCh, normalMsgCh, recentMsg, bloomItemCount>>]_vars

\* C7 witness: a message that needs dedup was rejected for a full queue and
\* tests negative afterwards.
C7_Witness ==
  \E s \in Senders :
    /\ sres[s] = "ErrMessageChannelFull" /\ spc[s] = "idle"
    /\ needDedup(smsg[s]) /\ ~hasMessage(smsg[s])
    /\ bloomItemCount > 0

\* C9: the counter stays in 0..bloomMaxItemCount and every content added
\* since the last reset tests positive; a record made with the counter at
\* the capacity leaves a filter that holds the recorded content alone and a
\* counter of 1, any other record keeps the filter's content and adds 1.
C9_NoFalseNegativeSinceReset ==
  /\ [](/\ bloomItemCount \in 0..bloomMaxItemCount
        /\ \A c \in sinceReset : hasMessage(c))
  /\ [][bloomItemCount' # bloomItemCount
          => IF bloomItemCount >= bloomMaxItemCount
               THEN /\ bloomItemCount' = 1
                    /\ \E c \in Contents : recentMsg' = BloomAdd(BloomNew, c)
               ELSE /\ bloomItemCount' = bloomItemCount + 1
                    /\ recentMsg \subseteq recentMsg'
                    /\ \E c \in Contents : recentMsg' = BloomAdd(recentMsg, c)]_vars

\* C9 witness: after a reset, a content sent before the reset tests negative
\* and the content recorded after it tests positive.
C9_Witness ==
  /\ \E d \in Contents : needDedup(d) /\ okSince[d] >= 0 /\ ~hasMessage(d)
  /\ bloomItemCount = 1
  /\ \E c \in sinceReset : hasMessage(c)

Terminated(kind) == {s \in StreamIds : reader[s] = kind}

\* C10: every frame with a mismatched chain id has terminated its reader,
\* for good, in a step that neither calls HandleMessage nor touches the dedup
\* filter; HandleMessage is called once per frame that was read and decoded
\* in full (with the matching chain id), by the reader that read it.
C10_MismatchedChainNeverDelivered ==
  /\ [](/\ badFrames = Cardinality(Terminated("badChain"))
        /\ handled + Cardinality(Terminated("deliver")) = goodFrames)
  /\ [][/\ badFrames' # badFrames
             => UNCHANGED <<handled, recentMsg, bloomItemCount>>
        /\ \A s \in StreamIds : reader[s] = "badChain" => reader'[s] = "badChain"
        /\ handled' # handled
             => (/\ handled' = handled + 1
                 /\ \E s \in StreamIds : reader[s] = "deliver" /\ reader'[s] = "read")]_vars

\* C10 witness: a frame was delivered and a reader was terminated by a frame
\* with a mismatched chain id.
C10_Witness ==
  /\ handled >= 1
  /\ badFrames >= 1
  /\ Terminated("badChain") # {}

\* ---- the write path under the scheduling the Go runtime gives: every
\* goroutine that can take a step takes it; a select picks at random among
\* its ready cases, so a case that is ready again and again is taken; the
\* receivers of a channel are served in turn; a write ends by its deadline.
\* Nothing is assumed of the callers (AddStream, SendMessage, Stop). ----
FairWrite ==
  /\ SpecWrite
  /\ SF_vars(LoopQuit)
  /\ SF_vars(LoopUrgent)
  /\ SF_vars(LoopNormal)
  /\ WF_vars(LoopDispatch)
  /\ \A m \in MsgIds :
       /\ WF_vars(GetStream(m))
       /\ WF_vars(NewStreamExceed(m))
       /\ WF_vars(NewStreamOk(m) \/ NewStreamFail(m))
       /\ SF_vars(WaitStream(m))
       /\ WF_vars(WriteOk(m) \/ WriteFail(m))

\* C11 as stated: once Stop() was called and writeLoop runs, writeLoop
\* eventually returns.
C11_Original == (quit /\ lpc \in {"select", "drain"}) ~> (lpc = "stopped")

\* C12 as stated: whenever write() gave a message up because setting the
\* deadline or writing failed (the only place that retires a stream),
\* RemoveNeighbor was invoked.
C12_Original == (closed # {}) => removed

\* C13 as stated: a stream whose reader returned because reading the header
\* or the body failed is closed and is no longer in the pool that getStream
\* hands streams out of.
C13_Original ==
  \A s \in StreamIds :
    reader[s] \in {"hdrErr", "bodyErr"} => (s \in closed /\ s \notin Range(streams))

\* C14: a stream has at most one writer at a time: no two write() calls hold
\* the same stream, a write() is writing exactly while it holds a stream, a
\* stream in the idle pool is held by no write(), and the pool holds no
\* stream twice.
C14_OneWriterPerStream ==
  /\ \A m1, m2 \in MsgIds : (m1 # m2 /\ wstr[m1] # 0) => wstr[m1] # wstr[m2]
  /\ \A m \in MsgIds : (wpc[m] = "io") <=> (wstr[m] # 0)
  /\ \A s \in Range(streams) : s \notin CheckedOut
  /\ \A i, j \in 1..Len(streams) : (i # j) => streams[i] # streams[j]

\* C14 witness: two write() calls are writing at once, each on its own
\* stream.
C14_Witness ==
  \E m1, m2 \in MsgIds :
    /\ m1 # m2
    /\ wpc[m1] = "io" /\ wpc[m2] = "io"
    /\ wstr[m1] # wstr[m2]

\* C15: a received message that needs dedup is recorded before it is handed
\* to the peer manager, so once HandleMessage was called with it, and as long
\* as recentMsg was not replaced since its frame was read, it tests positive
\* and no SendMessage of the same content with deduplicate = true passes the
\* dedup test.
C15_ReceivedThenSendRejected ==
  /\ [](\A st \in StreamIds :
          (reader[st] = "deliver" /\ rmsg[st] \in rdSince) => hasMessage(rmsg[st]))
  /\ [](\A c \in dlv : hasMessage(c))
  /\ [][\A s \in Senders : PassesDedupTest(s) => smsg'[s] \notin dlv]_vars

\* C15 witness: a call returned ErrDuplicateMessage for a message no
\* SendMessage with deduplicate = true had sent, which HandleMessage was
\* called with since the filter was last replaced.
C15_Witness ==
  \E s \in Senders :
    /\ sres[s] = "ErrDuplicateMessage" /\ spc[s] = "idle"
    /\ smsg[s] \in dlv /\ okSince[smsg[s]] < 0

\* A step of writeLoop itself: a case of one of its selects, or a step of the
\* urgent write it is inside.
LoopStep ==
  \/ LoopQuit
  \/ LoopUrgent
  \/ LoopNormal
  \/ LoopDispatch
  \/ \E u \in MsgIds :
       /\ Urgent(u)
       /\ \/ GetStream(u) \/ NewStreamExceed(u) \/ NewStreamOk(u) \/ NewStreamFail(u)
          \/ WaitStream(u) \/ WriteOk(u) \/ WriteFail(u)

\* writeLoop is in its outer select and no case is ready.
LoopIdle ==
  /\ lpc = "select" /\ ~quit
  /\ Len(urgentMsgCh) = 0 /\ Len(normalMsgCh) = 0
  /\ ~\E u \in MsgIds : Urgent(u) /\ InWrite(u)

NormalInProgress == \E n \in MsgIds : Normal(n) /\ InWrite(n)

\* C16 as stated: while normal sends dispatched earlier are in progress,
\* writeLoop can take its next step (a case of its select, or the next step
\* of its urgent write) without any of them finishing.
C16_Original ==
  (lpc \in {"select", "drain"} /\ NormalInProgress) => (LoopIdle \/ ENABLED LoopStep)

\* C16, amended: writeLoop never waits for a normal send to finish, with one
\* exception: its synchronous urgent write waits in getStream while the
\* pool is empty at the cap, until some write releases a stream.
C16_LoopWaitsOnlyForAStream ==
  (lpc \in {"select", "drain"})
    => \/ LoopIdle
       \/ ENABLED LoopStep
       \/ \E u \in MsgIds : Urgent(u) /\ wpc[u] = "wait" /\ Len(streams) = 0

\* C16 witness: a normal send is writing and writeLoop, not waiting for it,
\* can take the next urgent message.
C16_Witness ==
  /\ \E n \in MsgIds : Normal(n) /\ wpc[n] = "io"
  /\ lpc = "select" /\ Len(urgentMsgCh) > 0
  /\ ENABLED LoopUrgent

\* C17 as stated: every getStream call returns (a stream or an error), given
\* that every write that holds a stream releases or retires it.
C17_Original ==
  \A m \in MsgIds :
    (wpc[m] \in {"getStream", "newStream", "wait"})
      ~> (wpc[m] \in {"io", "written", "failed"})

\* C18 as stated: the deadline of a message of n payload bytes is
\* max(1 s, n/5120 s) from the time of computation; in seconds d, that is
\* d * 5120 = max(5120, n).
C18_Original ==
  (deadline # 0) => (deadline * 5120 = (IF plen > 5120 THEN plen ELSE 5120))

\* C18, amended: the deadline of a message of n payload bytes is
\* floor(n/5120) + 1 whole seconds from the time of computation: at least
\* 1 s, always more than n/5120 s and at most 1 s more than that.
C18_DeadlineIsQuotientPlusOne ==
  (deadline # 0) =>
    /\ deadline = (plen \div 5120) + 1
    /\ deadline >= 1
    /\ deadline * 5120 > plen
    /\ (deadline - 1) * 5120 <= plen

\* C18 witness: the deadline of a message of 5120 bytes was computed, and
\* is 2 s.
C18_Witness == plen = 5120 /\ deadline = 2

\* C19: when getStream fails because the new stream could not be opened,
\* write() invokes RemoveNeighbor, the failed attempt leaves the stream
\* count, the pool and the queues as they were, and the message is given up:
\* it holds no stream, is in no queue and its write() is never taken up again.
C19_OpenFailureRemovesPeer ==
  /\ [][\A m \in MsgIds :
          (wpc[m] = "newStream" /\ wpc'[m] = "failed")
            => /\ removed'
               /\ UNCHANGED <<streams, streamCount, nextId, closed>>
               /\ UNCHANGED <<urgentMsgCh, normalMsgCh, msgs>>
               /\ wstr'[m] = 0]_vars
  /\ [][\A m \in MsgIds : (wpc[m] = "failed") => (wpc'[m] = "failed")]_vars
  /\ [](\A m \in MsgIds :
          (wpc[m] = "failed")
            => (wstr[m] = 0 /\ m \notin Range(urgentMsgCh) \cup Range(normalMsgCh)))

\* C19 witness: a write() failed although no stream was ever retired, so it
\* failed in getStream, and RemoveNeighbor was invoked.
C19_Witness ==
  /\ \E m \in MsgIds : wpc[m] = "failed"
  /\ closed = {}
  /\ removed

\* C20: the stream count is the number of idle streams plus the number of
\* checked-out ones and is never negative; so the pool never holds more
\* than maxStreamCount streams, and neither the insertion of AddStream (made
\* below the cap) nor the release at the end of a successful write finds the
\* pool full.
C20_StreamAccounting ==
  /\ streamCount = Len(streams) + Cardinality(CheckedOut)
  /\ streamCount >= 0
  /\ Len(streams) <= maxStreamCount
  /\ (streamCount < maxStreamCount) => (Len(streams) < maxStreamCount)
  /\ \A m \in MsgIds : (wpc[m] = "io") => (Len(streams) < maxStreamCount /\ ENABLED WriteOk(m))

\* C20 witness: after a stream was retired, the peer is at the cap again
\* with a stream idle and another checked out.
C20_Witness ==
  /\ closed # {}
  /\ streamCount = maxStreamCount
  /\ Len(streams) > 0
  /\ CheckedOut # {}

====
